---- MODULE Spec2Model ----
(***************************************************************************)
(* A model of brainfuck.cpp: the Command enumeration, the node classes,    *)
(* the recursive-descent parse(), and the three visitors (Printer,         *)
(* Evaluator, Compiler), together with the driver loop of main().          *)
(*                                                                         *)
(* Program text is a sequence of one-character strings.  A CommandNode is  *)
(* the record [command, count]; a Loop is the record [children]; a Program *)
(* is represented by its children sequence.                                *)
(***************************************************************************)
EXTENDS Integers, Sequences, FiniteSets, TLC

VARIABLES
    pc,         \* position of the driver / of the visitor that is running
    file,       \* the characters of the file that main() opened
    loopWord,   \* the word a build finds where a Loop's storage is read as CommandNode::command
    program,    \* Program::children after parse(), <<>> before
    cout,       \* what main(), Printer (characters) and Compiler (lines) wrote to cout
    first,      \* the Program parsed from the previous file (history, for printed text fed back)
    pass,       \* index of the file main() is at
    max,        \* Evaluator::max
    ptrSize,    \* sizeof(arr), the size of a pointer in the build
    arr,        \* Evaluator::arr, the tape: offset -> byte
    ptr,        \* Evaluator::ptr as an offset from arr
    corrupt,    \* TRUE once the Evaluator (or its constructor) wrote outside arr
    stack,      \* the chain of Loop visits in progress: frames [children, i]
    stdin,      \* the bytes getchar() has still to deliver
    stdout      \* the bytes written to standard output during evaluation

vars == <<pc, file, loopWord, program, cout, first, pass,
          max, ptrSize, arr, ptr, corrupt, stack, stdin, stdout>>

evalVars == <<max, ptrSize, arr, ptr, corrupt, stack, stdin, stdout>>

----------------------------------------------------------------------------
(* Bounds of the model *)

MaxLen == 4         \* longest input file, in characters
MaxRepeat == 2      \* largest CommandNode::count in an enumerated tree
MaxKids == 2        \* most children of an enumerated Program
MaxBody == 1        \* most children of an enumerated Loop
MaxTape == 5        \* largest maxMemory handed to Evaluator
MaxStray == 2       \* how far ptr is followed outside the tape

----------------------------------------------------------------------------
(* Command, lines 21-29 *)

INCREMENT == 0
DECREMENT == 1
SHIFT_LEFT == 2
SHIFT_RIGHT == 3
INPUT == 4
OUTPUT == 5
ZERO == 6

Command == {INCREMENT, DECREMENT, SHIFT_LEFT, SHIFT_RIGHT, INPUT, OUTPUT, ZERO}

\* the six command characters parse() folds
Primitive == {"+", "-", "<", ">", ",", "."}

\* characters operator>>(char&) skips before it extracts
Whitespace == {" ", "\n"}

\* the characters the input files are drawn from ("a" stands for any comment character)
Alphabet == Primitive \cup {"[", "]", " ", "a"}

\* the character code of a character literal, as the comparison at line 147 sees it
Ord(c) ==
    CASE c = "+" -> 43
      [] c = "-" -> 45
      [] c = "<" -> 60
      [] c = ">" -> 62
      [] c = "," -> 44
      [] c = "." -> 46
      [] c = "[" -> 91
      [] c = "]" -> 93
      [] c = "0" -> 48
      [] c = " " -> 32
      [] c = "\n" -> 10
      [] OTHER -> 97

\* CommandNode::CommandNode(char c, int count), for the characters the program passes
CommandNode(c, count) ==
    [command |-> CASE c = "+" -> INCREMENT
                   [] c = "-" -> DECREMENT
                   [] c = "<" -> SHIFT_LEFT
                   [] c = ">" -> SHIFT_RIGHT
                   [] c = "," -> INPUT
                   [] c = "." -> OUTPUT
                   [] c = "0" -> ZERO,
     count |-> count]

\* new Loop() with the children parse() pushed into it
Loop(children) == [children |-> children]

IsLoop(node) == "children" \in DOMAIN node

IsCommandNode(node) == "command" \in DOMAIN node

----------------------------------------------------------------------------
(* parse, lines 119-164 *)

RECURSIVE SkipWs(_, _)
\* operator>> skips whitespace; the result is the index it extracts from, Len+1 at end of file
SkipWs(s, i) ==
    IF i <= Len(s) /\ s[i] \in Whitespace THEN SkipWs(s, i + 1) ELSE i

RECURSIVE PeekRun(_, _, _)
\* the loop `while (file.peek() == c)`: how many further copies of c follow at index i
PeekRun(s, i, c) ==
    IF i <= Len(s) /\ s[i] = c THEN 1 + PeekRun(s, i + 1, c) ELSE 0

FoldRunOnce(s, j) == 1

\* multiples, for the command character read at index j
FoldRun(s, j) == 1 + PeekRun(s, j + 1, s[j])

\* leaf->command where leaf is (CommandNode*)loop->children[0]: for a Loop
\* child the read lands in the Loop's own storage and yields the word w
LeafCommand(node, w) == IF IsCommandNode(node) THEN node.command ELSE w

\* the words such a read can find: Loop::children is a vector, whose first
\* word is a null or an aligned heap pointer
LoopWords == {0, 16}

\* what case '[' pushes for a loop whose body parsed to children
ClosedLoop(children, w) ==
    IF Len(children) = 1
    THEN IF LeafCommand(children[1], w) = Ord("+") \/ LeafCommand(children[1], w) = Ord("-")
         THEN CommandNode("0", 1)
         ELSE Loop(children)
    ELSE Loop(children)

RECURSIVE parse(_, _, _, _)

OnCloseBreak(s, j, children, w) == parse(s, j + 1, children, w)

\* case ']': return
OnClose(s, j, children, w) == [children |-> children, pos |-> j + 1]

\* `file >> c` failed: the while loop ends and parse returns
OnEof(s, j, children, w) == [children |-> children, pos |-> j]

\* parse(file, container) with the stream at index i and container->children = children;
\* the result is the container's children and the index the stream is left at
parse(s, i, children, w) ==
    LET j == SkipWs(s, i) IN
    IF j > Len(s) THEN OnEof(s, j, children, w)
    ELSE LET c == s[j] IN
         CASE c \in Primitive ->
                LET multiples == FoldRun(s, j)
                IN  parse(s, j + multiples, Append(children, CommandNode(c, multiples)), w)
           [] c = "[" ->
                LET body == parse(s, j + 1, <<>>, w)
                IN  parse(s, body.pos, Append(children, ClosedLoop(body.children, w)), w)
           [] c = "]" -> OnClose(s, j, children, w)
           [] OTHER -> parse(s, j + 1, children, w)

\* the Program main() gets from parse(file, &program)
ParseProgram(s, w) == parse(s, 1, <<>>, w).children

----------------------------------------------------------------------------
(* Printer, lines 171-211 *)

RECURSIVE Repeat(_, _)
\* the text written by count passes of a for loop writing text each
Repeat(text, count) == IF count <= 0 THEN <<>> ELSE text \o Repeat(text, count - 1)

\* cout << '[+]' writes the int value of the multi-character literal, 0x5B2B5D
MultiCharLiteral == <<"5", "9", "7", "4", "8", "7", "7">>

PrinterSymbol(command) ==
    CASE command = INCREMENT -> <<"+">>
      [] command = DECREMENT -> <<"-">>
      [] command = SHIFT_LEFT -> <<"<">>
      [] command = SHIFT_RIGHT -> <<">">>
      [] command = INPUT -> <<",">>
      [] command = OUTPUT -> <<".">>
      [] command = ZERO -> MultiCharLiteral

PrinterVisitCommandNodeOnce(leaf) == PrinterSymbol(leaf.command)

\* Printer::visit(const CommandNode*)
PrinterVisitCommandNode(leaf) == Repeat(PrinterSymbol(leaf.command), leaf.count)

RECURSIVE PrinterVisitChildren(_)
RECURSIVE PrinterVisitLoop(_)

\* (*it)->accept(this): dispatch on the node's class
PrinterAccept(node) ==
    IF IsLoop(node) THEN PrinterVisitLoop(node) ELSE PrinterVisitCommandNode(node)

\* the iteration over children in visit(Loop) and visit(Program)
PrinterVisitChildren(children) ==
    IF children = <<>> THEN <<>>
    ELSE PrinterAccept(Head(children)) \o PrinterVisitChildren(Tail(children))

\* Printer::visit(const Loop*)
PrinterVisitLoop(loop) == <<"[">> \o PrinterVisitChildren(loop.children) \o <<"]">>

\* Printer::visit(const Program*)
PrinterVisitProgram(children) == PrinterVisitChildren(children) \o <<"\n">>

----------------------------------------------------------------------------
(* Compiler, lines 275-322: the output is a sequence of lines, one per endl *)

CompilerStatement(command) ==
    CASE command = INCREMENT -> "++*ptr;"
      [] command = DECREMENT -> "--*ptr;"
      [] command = SHIFT_RIGHT -> "++ptr;"
      [] command = SHIFT_LEFT -> "--ptr;"
      [] command = INPUT -> "*ptr = getchar();"
      [] command = OUTPUT -> "putchar(*ptr);"
      [] command = ZERO -> "*ptr = 0;"

\* Compiler::visit(const CommandNode*)
CompilerVisitCommandNode(leaf) == Repeat(<<CompilerStatement(leaf.command)>>, leaf.count)

RECURSIVE CompilerVisitChildren(_)
RECURSIVE CompilerVisitLoop(_)

\* (*it)->accept(this): dispatch on the node's class
CompilerAccept(node) ==
    IF IsLoop(node) THEN CompilerVisitLoop(node) ELSE CompilerVisitCommandNode(node)

\* the iteration over children in visit(Loop) and visit(Program)
CompilerVisitChildren(children) ==
    IF children = <<>> THEN <<>>
    ELSE CompilerAccept(Head(children)) \o CompilerVisitChildren(Tail(children))

\* Compiler::visit(const Loop*)
CompilerVisitLoop(loop) ==
    <<"while (*ptr) {">> \o CompilerVisitChildren(loop.children) \o <<"}">>

\* Compiler::visit(const Program*)
CompilerVisitProgram(children) ==
    <<"#include <stdio.h>", "int main(int argc, char** argv) {">>
        \o CompilerVisitChildren(children) \o <<"}">>

----------------------------------------------------------------------------
(* main, lines 324-348: one pass of the for loop per file *)

RECURSIVE SeqsUpTo(_, _)
\* the sequences over S of length at most n
SeqsUpTo(S, n) ==
    IF n = 0 THEN {<<>>}
    ELSE LET shorter == SeqsUpTo(S, n - 1)
         IN  shorter \cup {Append(q, x) : q \in {t \in shorter : Len(t) = n - 1}, x \in S}

Inputs == SeqsUpTo(Alphabet, MaxLen)

SrcLabel == <<"S", "R", "C", ":", "\n">>

NoEvaluator ==
    /\ max = 0 /\ ptrSize = 0 /\ arr = <<>> /\ ptr = 0 /\ corrupt = FALSE
    /\ stack = <<>> /\ stdin = <<>> /\ stdout = <<>>

Init ==
    /\ pc = "open"
    /\ file \in Inputs
    /\ loopWord \in LoopWords
    /\ program = <<>>
    /\ cout = <<>>
    /\ first = <<>>
    /\ pass = 1
    /\ NoEvaluator

\* file.open(argv[i]); parse(file, &program);
DoParse ==
    /\ pc = "open"
    /\ program' = ParseProgram(file, loopWord)
    /\ pc' = "parsed"
    /\ UNCHANGED <<file, loopWord, cout, first, pass>>
    /\ UNCHANGED evalVars

\* cout << "SRC:\n"; program.accept(&printer);
DoPrint ==
    /\ pc = "parsed"
    /\ cout' = cout \o SrcLabel \o PrinterVisitProgram(program)
    /\ pc' = "printed"
    /\ UNCHANGED <<file, loopWord, program, first, pass>>
    /\ UNCHANGED evalVars

\* the text the Printer wrote, i.e. cout without the label main() wrote first
PrintedText == SubSeq(cout, Len(SrcLabel) + 1, Len(cout))

\* the printed text is saved and handed to the program as its next file
FeedBack ==
    /\ pc = "printed"
    /\ pass = 1
    /\ file' = PrintedText
    /\ first' = program
    /\ program' = <<>>
    /\ cout' = <<>>
    /\ pass' = 2
    /\ pc' = "open"
    /\ UNCHANGED loopWord
    /\ UNCHANGED evalVars

Next == DoParse \/ DoPrint \/ FeedBack

Spec == Init /\ [][Next]_vars

----------------------------------------------------------------------------
(* The visitors on any tree the node classes can build *)

Leaves == {[command |-> c, count |-> n] : c \in Command, n \in 1..MaxRepeat}

Bodies == SeqsUpTo(Leaves \cup {Loop(<<>>)}, MaxBody)

Nodes == Leaves \cup {Loop(b) : b \in Bodies}

Programs == SeqsUpTo(Nodes, MaxKids)

InitTree ==
    /\ pc = "parsed"
    /\ file = <<>>
    /\ loopWord = 0
    /\ program \in Programs
    /\ cout = <<>>
    /\ first = <<>>
    /\ pass = 1
    /\ NoEvaluator

\* program.accept(&compile);
DoCompile ==
    /\ pc = "parsed"
    /\ cout' = cout \o CompilerVisitProgram(program)
    /\ pc' = "compiled"
    /\ UNCHANGED <<file, loopWord, program, first, pass>>
    /\ UNCHANGED evalVars

NextTree == DoPrint \/ DoCompile

SpecTree == InitTree /\ [][NextTree]_vars

----------------------------------------------------------------------------
(* Evaluator, lines 214-272 *)

\* the values an uninitialised or out-of-tape byte may be found to hold
IndeterminateBytes == {0, 1, 255}

\* the pointer sizes of the builds considered
PointerSizes == {4, 8}

\* the source of the end-to-end scenario
Scenario1 == <<"+", "+", "+", "+", "+", "+", "+", "+", "[", ">", "+", "+", "+", "+", "+", "+", "+", "+", "<", "-", "]", ">", ".">>

EvalSources ==
    {Scenario1,
     <<",", ".">>,
     <<"[", "-", "]">>,
     <<"+", "[", "]">>,
     <<"[", "]">>,
     <<"-", "[", "+", "]">>,
     <<">", "+">>,
     <<"<", "+">>,
     <<"+", "[", ">", "+", "<", "-", "]", ">", ".">>,
     <<"+", "+", "[", ">", ",", ".", "<", "-", "]">>,
     <<"+", "[", "[", "-", "]", "]">>,
     <<">", ">", ">", ">", ">", ".">>,
     <<"+", "[", ">", "]">>,
     <<"+", "+", "[", ">", "+", "[", "-", "]", "<", "-", "]">>}

\* the contents of standard input
EvalInputs == {<<>>, <<65>>}

InitEval ==
    /\ pc = "start"
    /\ file \in EvalSources
    /\ loopWord \in LoopWords
    /\ program = <<>>
    /\ cout = <<>>
    /\ first = <<>>
    /\ pass = 1
    /\ ptrSize \in PointerSizes
    /\ stdin \in EvalInputs
    /\ max = 0 /\ arr = <<>> /\ ptr = 0 /\ corrupt = FALSE
    /\ stack = <<>> /\ stdout = <<>>

\* Evaluator eval(n): arr is new unsigned char[n], of which memset clears
\* sizeof(arr) bytes - the size of the pointer, whatever n is
Construct(n) ==
    /\ pc = "start"
    /\ max' = n
    /\ ptr' = 0
    /\ arr' \in {t \in [0..(n - 1) -> {0} \cup IndeterminateBytes] :
                    \A k \in 0..(n - 1) :
                        IF k < ptrSize THEN t[k] = 0 ELSE t[k] \in IndeterminateBytes}
    /\ corrupt' = (ptrSize > n)
    /\ pc' = "open"
    /\ UNCHANGED <<file, loopWord, program, cout, first, pass, ptrSize, stack, stdin, stdout>>

\* ptr points into the tape
InTape(p) == 0 <= p /\ p < max

\* the values *ptr can yield
Deref == IF InTape(ptr) THEN {arr[ptr]} ELSE IndeterminateBytes

\* arr after *ptr = value
Store(value) == IF InTape(ptr) THEN [arr EXCEPT ![ptr] = value] ELSE arr

Top == stack[Len(stack)]

\* the child the for loop of the visit in progress is at
Child == Top.children[Top.i]

\* the stack once the child at the top frame's index has been visited: the
\* for loop moves on, and after a Loop's last child control is at `while (*ptr)`
AfterChild(stk) ==
    LET t == stk[Len(stk)]
    IN  [stk EXCEPT ![Len(stk)].i =
            IF t.loop /\ t.i + 1 > Len(t.children) THEN 0 ELSE t.i + 1]

\* program.accept(&eval): Evaluator::visit(const Program*) starts its for loop
StartEval ==
    /\ pc = "parsed"
    /\ max > 0
    /\ stack' = <<[children |-> program, i |-> 1, loop |-> FALSE]>>
    /\ pc' = "eval"
    /\ UNCHANGED <<file, loopWord, program, cout, first, pass,
                   max, ptrSize, arr, ptr, corrupt, stdin, stdout>>

\* n times --*ptr on a cell holding v
EvalDecrement(v, n) == (v + 256 - (n % 256)) % 256

EvalIncrementOnce(v, n) == (v + 1) % 256

\* n times ++*ptr on a cell holding v
EvalIncrement(v, n) == (v + n) % 256

\* the value of the n-th getchar(), stored into an unsigned char (EOF becomes 255)
Getchar(n) == IF n <= Len(stdin) THEN stdin[n] ELSE 255

\* Evaluator::visit(const CommandNode*)
VisitCommandNode ==
    /\ pc = "eval"
    /\ Top.i \in 1..Len(Top.children)
    /\ IsCommandNode(Child)
    /\ LET leaf == Child IN
       \E v \in Deref :
          /\ CASE leaf.command = INCREMENT ->
                    /\ arr' = Store(EvalIncrement(v, leaf.count))
                    /\ corrupt' = (corrupt \/ ~InTape(ptr))
                    /\ UNCHANGED <<ptr, stdin, stdout>>
               [] leaf.command = DECREMENT ->
                    /\ arr' = Store(EvalDecrement(v, leaf.count))
                    /\ corrupt' = (corrupt \/ ~InTape(ptr))
                    /\ UNCHANGED <<ptr, stdin, stdout>>
               [] leaf.command = SHIFT_RIGHT ->
                    /\ ptr + leaf.count <= max + MaxStray
                    /\ ptr' = ptr + leaf.count
                    /\ UNCHANGED <<arr, corrupt, stdin, stdout>>
               [] leaf.command = SHIFT_LEFT ->
                    /\ ptr - leaf.count >= 0 - MaxStray
                    /\ ptr' = ptr - leaf.count
                    /\ UNCHANGED <<arr, corrupt, stdin, stdout>>
               [] leaf.command = INPUT ->
                    /\ arr' = Store(Getchar(leaf.count))
                    /\ corrupt' = (corrupt \/ ~InTape(ptr))
                    /\ stdin' = SubSeq(stdin, leaf.count + 1, Len(stdin))
                    /\ UNCHANGED <<ptr, stdout>>
               [] leaf.command = OUTPUT ->
                    /\ stdout' = stdout \o Repeat(<<v>>, leaf.count)
                    /\ UNCHANGED <<arr, ptr, corrupt, stdin>>
               [] leaf.command = ZERO ->
                    /\ arr' = Store(0)
                    /\ corrupt' = (corrupt \/ ~InTape(ptr))
                    /\ UNCHANGED <<ptr, stdin, stdout>>
    /\ stack' = AfterChild(stack)
    /\ UNCHANGED <<pc, file, loopWord, program, cout, first, pass, max, ptrSize>>

\* (*it)->accept(this) on a Loop: Evaluator::visit(const Loop*) is entered
\* and stands at its `while (*ptr)`
VisitLoop ==
    /\ pc = "eval"
    /\ Top.i \in 1..Len(Top.children)
    /\ IsLoop(Child)
    /\ stack' = Append(stack, [children |-> Child.children, i |-> 0, loop |-> TRUE])
    /\ UNCHANGED <<pc, file, loopWord, program, cout, first, pass,
                   max, ptrSize, arr, ptr, corrupt, stdin, stdout>>

LoopContinuesIfBody(v, children) == v # 0 /\ children # <<>>

\* the condition of `while (*ptr)` for a cell holding v
LoopContinues(v, children) == v # 0

\* `while (*ptr)`: start a pass over the children, or return to the caller
LoopTest ==
    /\ pc = "eval"
    /\ Top.loop
    /\ Top.i = 0
    /\ \E v \in Deref :
          IF LoopContinues(v, Top.children)
          THEN stack' = [stack EXCEPT ![Len(stack)].i =
                            IF Top.children = <<>> THEN 0 ELSE 1]
          ELSE stack' = AfterChild(SubSeq(stack, 1, Len(stack) - 1))
    /\ UNCHANGED <<pc, file, loopWord, program, cout, first, pass,
                   max, ptrSize, arr, ptr, corrupt, stdin, stdout>>

\* the for loop of Evaluator::visit(const Program*) is over: cout << '\n'
EndProgram ==
    /\ pc = "eval"
    /\ ~Top.loop
    /\ Top.i > Len(Top.children)
    /\ stdout' = Append(stdout, 10)
    /\ stack' = <<>>
    /\ pc' = "evaluated"
    /\ UNCHANGED <<file, loopWord, program, cout, first, pass,
                   max, ptrSize, arr, ptr, corrupt, stdin>>

NextEval ==
    \/ \E n \in 1..MaxTape : Construct(n)
    \/ DoParse
    \/ StartEval
    \/ VisitCommandNode
    \/ VisitLoop
    \/ LoopTest
    \/ EndProgram

SpecEval == InitEval /\ [][NextEval]_vars

\* a visit in progress always takes its next step
FairSpecEval ==
    /\ SpecEval
    /\ WF_vars(VisitCommandNode)
    /\ WF_vars(VisitLoop)
    /\ WF_vars(LoopTest)
    /\ WF_vars(EndProgram)

----------------------------------------------------------------------------
(* Properties of parse and of the Printer under Spec *)

Parsed == pc \in {"parsed", "printed"}

RECURSIVE NoClearableLoop(_)
\* no Loop, at any depth, whose body is one Increment or Decrement CommandNode
NoClearableLoop(children) ==
    \A k \in 1..Len(children) :
        IsLoop(children[k]) =>
            /\ ~ ( /\ Len(children[k].children) = 1
                   /\ IsCommandNode(children[k].children[1])
                   /\ children[k].children[1].command \in {INCREMENT, DECREMENT} )
            /\ NoClearableLoop(children[k].children)

\* C1: every loop whose body parses to exactly one Increment or Decrement
\* CommandNode is replaced by CommandNode{ZERO, 1}, so that no such Loop is
\* left anywhere in the parsed Program.
C1_ClearCellRewrite == Parsed => NoClearableLoop(program)

\* count of the characters c among s[1..i]
CountOf(s, c, i) == Cardinality({m \in 1..i : s[m] = c})

\* index of the first ']' that has no open '[', Len(s)+1 when there is none
StrayIndex(s) ==
    LET stray == {i \in 1..Len(s) :
                    s[i] = "]" /\ CountOf(s, "[", i - 1) = CountOf(s, "]", i - 1)}
    IN  IF stray = {} THEN Len(s) + 1
        ELSE CHOOSE i \in stray : \A m \in stray : i <= m

\* last index of the maximal run of s[i] that starts at index i
RunEnd(s, i) ==
    CHOOSE k \in i..Len(s) :
        /\ \A m \in i..k : s[m] = s[i]
        /\ k = Len(s) \/ s[k + 1] # s[i]

RECURSIVE RunsFrom(_, _, _)
\* the maximal runs of command characters in s[i..n], in order, as (kind, length)
RunsFrom(s, i, n) ==
    IF i > n THEN <<>>
    ELSE IF s[i] \in Primitive
         THEN <<CommandNode(s[i], RunEnd(s, i) - i + 1)>> \o RunsFrom(s, RunEnd(s, i) + 1, n)
         ELSE RunsFrom(s, i + 1, n)

RECURSIVE CommandNodesOf(_)
\* the CommandNodes of a tree in source order
CommandNodesOf(children) ==
    IF children = <<>> THEN <<>>
    ELSE (IF IsLoop(Head(children)) THEN CommandNodesOf(Head(children).children)
          ELSE <<Head(children)>>) \o CommandNodesOf(Tail(children))

C3_RoundTripAnyInput == (pc = "parsed" /\ pass = 2) => program = first

RECURSIVE NoAdjacentSameKind(_)
\* no container has two neighbouring children that are CommandNodes of one kind
NoAdjacentSameKind(children) ==
    /\ \A k \in 1..(Len(children) - 1) :
          ~ ( /\ IsCommandNode(children[k]) /\ IsCommandNode(children[k + 1])
              /\ children[k].command = children[k + 1].command )
    /\ \A k \in 1..Len(children) :
          IsLoop(children[k]) => NoAdjacentSameKind(children[k].children)

\* C3 amended: when no container of the parsed Program has two neighbouring
\* CommandNodes of the same kind, the Program parsed from the Printer's text
\* equals the Program that was printed.
C3_RoundTrip ==
    (pc = "parsed" /\ pass = 2 /\ NoAdjacentSameKind(first)) => program = first

C3_Witness ==
    /\ pc = "parsed" /\ pass = 2
    /\ first = <<Loop(<<CommandNode("-", 1)>>), CommandNode(">", 1)>>
    /\ program = first

\* the text s followed by n closing brackets
RECURSIVE Closed(_, _)
Closed(s, n) == IF n <= 0 THEN s ELSE Closed(Append(s, "]"), n - 1)

\* C10: a ']' read by the top-level parse call with no '[' open ends the
\* parse: the Program is the one parsed from the text before that ']'.  And
\* a file that ends inside open loops is parsed as if every open loop had
\* been closed at the end of the file.
C10_StrayCloseEndsParse ==
    pc = "parsed" =>
        /\ program = ParseProgram(SubSeq(file, 1, StrayIndex(file) - 1), loopWord)
        /\ StrayIndex(file) > Len(file) =>
             program = ParseProgram(
                 Closed(file, CountOf(file, "[", Len(file)) - CountOf(file, "]", Len(file))),
                 loopWord)

C10_Witness ==
    /\ pc = "parsed"
    /\ file = <<"+", "]", "-", "[">>
    /\ program = <<[command |-> INCREMENT, count |-> 1]>>

----------------------------------------------------------------------------
(* Properties of the Printer and the Compiler under SpecTree *)

\* the text the claim gives for a command kind
ClaimedSymbol(command) ==
    CASE command = INCREMENT -> <<"+">>
      [] command = DECREMENT -> <<"-">>
      [] command = SHIFT_LEFT -> <<"<">>
      [] command = SHIFT_RIGHT -> <<">">>
      [] command = INPUT -> <<",">>
      [] command = OUTPUT -> <<".">>
      [] command = ZERO -> <<"[", "+", "]">>

RECURSIVE ClaimedText(_)
\* the text the claim gives for a sequence of children
ClaimedText(children) ==
    IF children = <<>> THEN <<>>
    ELSE (IF IsLoop(Head(children))
          THEN <<"[">> \o ClaimedText(Head(children).children) \o <<"]">>
          ELSE Repeat(ClaimedSymbol(Head(children).command), Head(children).count))
         \o ClaimedText(Tail(children))

\* C7: the Printer writes, for a Program, the text of its children in order
\* and one newline, where a CommandNode's text is its symbol count times
\* ("[+]" count times for ZERO) and a Loop's text is '[', its children's
\* text, ']'.
C7_PrinterOutput ==
    pc = "printed" => PrintedText = ClaimedText(program) \o <<"\n">>

IncludeLine == "#include <stdio.h>"

EntryLine == "int main(int argc, char** argv) {"

\* the lines a child's statements, or the end of main, are made of
StatementLines ==
    {CompilerStatement(c) : c \in Command} \cup {"while (*ptr) {", "}"}

\* number of lines written before the first statement line
PrologueLen(lines) ==
    LET stmts == {k \in 1..Len(lines) : lines[k] \in StatementLines}
    IN  IF stmts = {} THEN Len(lines)
        ELSE (CHOOSE k \in stmts : \A m \in stmts : k <= m) - 1

\* C8: the emitted text begins with a prologue that holds, besides the
\* entry point, declarations of the tape array and of the pointer, and the
\* children's statements follow it in order, a CommandNode's statement count
\* times and a Loop's statements inside a while block.
C8_CompilerOutput ==
    pc = "compiled" =>
        /\ \E k \in 1..PrologueLen(cout) : cout[k] = EntryLine
        /\ \E k \in 1..PrologueLen(cout) : cout[k] \notin {IncludeLine, EntryLine}
        /\ SubSeq(cout, PrologueLen(cout) + 1, Len(cout))
              = CompilerVisitChildren(program) \o <<"}">>

----------------------------------------------------------------------------
(* Properties of the Evaluator under SpecEval *)

\* C4: whenever an Evaluator exists its cursor is a cell of the tape, i.e.
\* a shift at the edge of the tape fails instead of moving the cursor out.
C4_CursorInBounds == max > 0 => InTape(ptr)

\* C5: right after Evaluator(n) is constructed every one of the n cells
\* holds 0 and the cursor is at offset 0.
C5_InitialState ==
    pc = "open" => (ptr = 0 /\ \A k \in 0..(max - 1) : arr[k] = 0)

\* the evaluation of the scenario's source with empty input on >= 2 cells
Scenario1Run == file = Scenario1 /\ stdin = <<>> /\ max >= 2

AtLoopTest == pc = "eval" /\ stack # <<>> /\ Top.loop /\ Top.i = 0 /\ InTape(ptr)

\* control is inside a pass over a Loop's children, at child Top.i
MidPass == pc = "eval" /\ stack # <<>> /\ Top.loop /\ Top.i >= 1

\* C9: a Loop reached with a zero cell is left without running a child; a
\* nonzero cell starts a pass at the first child; inside a pass the cell is
\* not tested - the children run in order and the Loop is not left before
\* the pass is over; an empty Loop reached with a nonzero cell is never left.
C9_LoopSemantics ==
    [][ /\ (AtLoopTest /\ arr[ptr] = 0) =>
              /\ Len(stack') = Len(stack) - 1
              /\ UNCHANGED <<arr, ptr, stdin, stdout>>
        /\ (AtLoopTest /\ arr[ptr] # 0 /\ Top.children # <<>>) =>
              /\ stack' = [stack EXCEPT ![Len(stack)].i = 1]
              /\ UNCHANGED <<arr, ptr, stdin, stdout>>
        /\ (AtLoopTest /\ arr[ptr] # 0 /\ Top.children = <<>>) =>
              /\ stack' = stack
              /\ UNCHANGED <<pc, arr, ptr, stdin, stdout>>
        /\ MidPass =>
              /\ Len(stack') >= Len(stack)
              /\ stack'[Len(stack)].children = Top.children
              /\ IF Len(stack') > Len(stack)
                 THEN /\ IsLoop(Child)
                      /\ stack'[Len(stack)].i = Top.i
                      /\ stack'[Len(stack')].children = Child.children
                 ELSE /\ IsCommandNode(Child)
                      /\ stack'[Len(stack)].i =
                            IF Top.i = Len(Top.children) THEN 0 ELSE Top.i + 1
      ]_vars

C9_Witness == AtLoopTest /\ arr[ptr] # 0 /\ Top.children = <<>> /\ Len(stack) = 2

====
